---- MODULE Spec2Model ----
(***************************************************************************)
(* Model of tools_webrtc/apply_clang_tidy.py: a command-line script that   *)
(* validates a working directory, rebuilds the clang-tidy tools when they  *)
(* are missing or stale, regenerates compile_commands.json and runs the    *)
(* run-clang-tidy.py runner.                                               *)
(*                                                                         *)
(* The script is one sequential process; every subprocess.run call blocks  *)
(* until the child exits.  A run is cut into steps at those blocking       *)
(* points, so that the state between "child spawned" and "child exited"    *)
(* is visible; while the script waits, the child it waits for changes the  *)
(* files in steps of its own.                                              *)
(*                                                                         *)
(* Environment: the script is started in some directory; each of the two   *)
(* scripts it names relative to the src dir can or cannot be started       *)
(* there, compile_commands.json can or cannot be opened for writing, the   *)
(* three tool files under the working directory may or may not exist, and  *)
(* the runner, when it exists, may or may not be executable.               *)
(* SpecCheckout is the environment the script is written for: the src dir  *)
(* of a checkout with its scripts, and a working directory it can write.   *)
(* The command line is any sequence of up to MaxArgs words.                *)
(* A path is a sequence of components, as pathlib.Path(a, b) builds it; a  *)
(* command line is a sequence of paths and one-component words.            *)
(***************************************************************************)
EXTENDS Integers, Sequences, FiniteSets

\* ------------------------------------------------------------ constants
_DEFAULT_WORKDIR == "out/Default"
_TIDY_BUILD == "tools/clang/scripts/build_clang_tools_extra.py"
_TIDY_RUNNER == "tools/clang/third_party/llvm/clang-tools-extra/clang-tidy/tool/run-clang-tidy.py"
_TIDY_BINARY == "tools/clang/third_party/llvm/build/bin/clang-tidy"
_REPLACEMENTS_BINARY == "tools/clang/third_party/llvm/build/bin/clang-apply-replacements"
GENERATE_COMPDB == "tools/clang/scripts/generate_compdb.py"

\* age_in_days = age_in_seconds / (24 * 60 * 60); recompile unless < 30
SecondsPerDay == 24 * 60 * 60
StaleDays == 30

\* exit statuses of the interpreter: normal return, uncaught exception,
\* argparse's parser.error()
EXIT_OK == 0
EXIT_EXCEPTION == 1
EXIT_USAGE == 2

\* --------------------------------------------------------------- bounds
\* child return codes range over -MaxRetCode..MaxRetCode (negative: killed
\* by a signal); ages lie within MaxSkew seconds of the 30 day threshold;
\* a command line has at most MaxArgs words
MaxRetCode == 1
MaxSkew == 1
MaxArgs == 3

OtherDir == "out/Other"
Paths == {_DEFAULT_WORKDIR, OtherDir}
Kinds == {"absent", "file", "dir"}
ToolFiles == {_TIDY_RUNNER, _TIDY_BINARY, _REPLACEMENTS_BINARY}
\* the programs named relative to the src dir
Scripts == {_TIDY_BUILD, GENERATE_COMPDB}
\* a file is there or not, and holds a sequence of lines: none, or the one
\* line the generator writes
Line == "line"
Contents == {<< >>, <<Line>>}
NoFile == [exists |-> FALSE, data |-> << >>]
FileStates == {NoFile} \cup {[exists |-> TRUE, data |-> d] : d \in Contents}
RetCodes == (0 - MaxRetCode)..MaxRetCode
AgeSeconds == {0} \cup {StaleDays * SecondsPerDay + d : d \in (0 - MaxSkew)..MaxSkew}
\* the option strings the parser knows: add_argument's, and argparse's help
Flags == {"-w", "--work-dir"}
HelpFlags == {"-h", "--help"}
\* the words command lines are made of: the two options in their short
\* spelling and a path, which is an unrecognized argument where no option
\* value is expected
Tokens == {"-h", "-w", OtherDir}
ArgVectors == UNION {[1..n -> Tokens] : n \in 0..MaxArgs}

VARIABLES
    argv,          \* sys.argv[1:]
    fs,            \* kind of each candidate directory path on disk
    tools,         \* which files exist below the working directory
    runner_exec,   \* the runner file can be executed (a regular file, mode x)
    age,           \* time.time() - st_mtime of the clang-tidy binary, seconds
                   \* (0 while there is no such file)
    scripts,       \* which of the two scripts can be started from the cwd
    cc_writable,   \* <work_dir>/compile_commands.json can be opened with w+
    cc_initial,    \* state of <work_dir>/compile_commands.json at start
    ccFile,        \* state of <work_dir>/compile_commands.json now
    written,       \* what the generator has written to its stdout so far
    pc,            \* position of the script
    work_dir,      \* args.work_dir, <<>> until parsed
    run_calls,     \* the subprocess.run calls made so far, in order
    alive,         \* child processes started and not yet exited
    completed,     \* CompletedProcess of every child that exited, in order
    inspections,   \* what each evaluation of the staleness check saw
    steps,         \* the functions of main() entered so far, in order
    exit_status    \* <<>> while running, <<code>> once the script ended

vars == <<argv, fs, tools, runner_exec, age, scripts, cc_writable, cc_initial,
          ccFile, written, pc, work_dir, run_calls, alive, completed,
          inspections, steps, exit_status>>

\* ------------------------------------------------------- pure functions
\* pathlib.Path(path).is_dir()
IsDir(path) == path \in DOMAIN fs /\ fs[path] = "dir"

\* pathlib.Path(work_dir, rel).exists(), for the directory argv names
Exists(path) ==
    IF Len(path) = 1 THEN fs[path[1]] # "absent"
    ELSE IsDir(path[1]) /\ tools[path[2]]

\* _valid_dir mutant: accepts anything that exists (exists() for is_dir())
_valid_dir_exists(path) == path \in DOMAIN fs /\ fs[path] # "absent"

\* _valid_dir: TRUE when the path is returned, FALSE when ValueError is raised
_valid_dir(path) == IsDir(path)

\* argparse default conversion mutant: the default is not passed through
\* type= (as for a default that is no str)
ConvertDefault_raw(default) == [error |-> FALSE, value |-> <<default>>]

\* argparse converts a str default with type= once the command line is
\* consumed and the option was not given
ConvertDefault(default) ==
    [error |-> ~_valid_dir(default), value |-> <<default>>]

\* argparse reads an option value only from a word that is no option string
IsOptionWord(word) == word \in Flags \cup HelpFlags

\* parser.parse_args() from word i on, with wd the value of --work-dir so
\* far (<<>>: not given) and extras whether an unrecognized word was met:
\*   -h prints the help and exits 0 where it stands;
\*   -w takes the next word as its value, passed through type=_valid_dir,
\*      a ValueError or a missing value being parser.error(), exit 2;
\*   any other word is kept as unrecognized, an error once all is consumed
RECURSIVE ParseKnownArgs(_, _, _, _)
ParseKnownArgs(a, i, wd, extras) ==
    IF i > Len(a)
    THEN LET r == IF wd = << >> THEN ConvertDefault(_DEFAULT_WORKDIR)
                  ELSE [error |-> FALSE, value |-> wd]
         IN  IF r.error \/ extras
             THEN [status |-> "error", work_dir |-> << >>]
             ELSE [status |-> "ok", work_dir |-> r.value]
    ELSE IF a[i] \in HelpFlags
    THEN [status |-> "help", work_dir |-> << >>]
    ELSE IF a[i] \in Flags
    THEN IF i + 1 <= Len(a) /\ ~IsOptionWord(a[i + 1])
              /\ _valid_dir(a[i + 1])
         THEN ParseKnownArgs(a, i + 2, <<a[i + 1]>>, extras)
         ELSE [status |-> "error", work_dir |-> << >>]
    ELSE ParseKnownArgs(a, i + 1, wd, TRUE)

\* _parse_args: the parsed namespace, or the way the parser ended the run
_parse_args(a) == ParseKnownArgs(a, 1, << >>, FALSE)

\* age_in_days < 30 mutant: the boundary day still counts as fresh
AgeUnderThreshold_inclusive(age_in_seconds) ==
    age_in_seconds <= StaleDays * SecondsPerDay

\* age_in_days < 30 mutant: days taken for seconds
AgeUnderThreshold_seconds(age_in_seconds) ==
    age_in_seconds < StaleDays

\* age_in_seconds / (24 * 60 * 60) < 30, cross-multiplied (true division)
AgeUnderThreshold(age_in_seconds) ==
    age_in_seconds < StaleDays * SecondsPerDay

\* the condition under which _build_clang_tools returns without building
ToolsUpToDate(wd) ==
    /\ Exists(wd \o <<_TIDY_RUNNER>>)
    /\ Exists(wd \o <<_TIDY_BINARY>>)
    /\ Exists(wd \o <<_REPLACEMENTS_BINARY>>)
    /\ AgeUnderThreshold(age)

build_clang_tools_cmd(wd) ==
    << <<_TIDY_BUILD>>, <<"--fetch">>, wd, <<"clang-tidy">>,
       <<"clang-apply-replacements">> >>

generate_compdb_cmd(wd) == << <<GENERATE_COMPDB>>, <<"-p">>, wd >>

clang_tidy_cmd(wd) ==
    << wd \o <<_TIDY_RUNNER>>, <<"-p">>, wd, <<"-allow-no-checks">>,
       <<"-clang-tidy-binary">>, wd \o <<_TIDY_BINARY>>,
       <<"-clang-apply-replacements-binary">>,
       wd \o <<_REPLACEMENTS_BINARY>>, <<"-fix">> >>

\* subprocess.run can start cmd (it raises OSError otherwise): a script
\* named relative to the src dir when it can be started from the cwd, the
\* runner below the working directory when the file is there
\* (FileNotFoundError otherwise) and executable (PermissionError otherwise)
CanStart(cmd) ==
    IF Len(cmd[1]) = 1 THEN scripts[cmd[1][1]]
    ELSE Exists(cmd[1]) /\ runner_exec

\* subprocess.run mutant: the child is started and not waited for (Popen)
AfterSpawn_popen(waiting, next) == next

\* subprocess.run blocks until the child has exited: the script stays at the
\* call (waiting) and reaches the following statement (next) only then
AfterSpawn(waiting, next) == waiting

\* check= mutant: a nonzero return code is raised whatever check= says
RaisesCalledProcessError_always(check, returncode) == returncode # 0

\* check= mutant: a nonzero return code is never raised
RaisesCalledProcessError_never(check, returncode) == FALSE

\* subprocess.run(..., check=check) raises CalledProcessError
RaisesCalledProcessError(check, returncode) == check /\ returncode # 0

\* the states the tool files can be in: only an existing runner can be
\* executable, only an existing clang-tidy binary has an age
ToolFilesState(t, x, a) ==
    /\ t \in [ToolFiles -> BOOLEAN]
    /\ x \in BOOLEAN
    /\ a \in AgeSeconds
    /\ x => t[_TIDY_RUNNER]
    /\ ~t[_TIDY_BINARY] => a = 0

\* ----------------------------------------------------------------- state
TypeOK ==
    /\ argv \in ArgVectors
    /\ fs \in [Paths -> Kinds]
    /\ tools \in [ToolFiles -> BOOLEAN]
    /\ runner_exec \in BOOLEAN
    /\ age \in AgeSeconds
    /\ scripts \in [Scripts -> BOOLEAN]
    /\ cc_writable \in BOOLEAN
    /\ cc_initial \in FileStates
    /\ ccFile \in FileStates
    /\ written \in Contents
    /\ work_dir \in {<< >>} \cup {<<p>> : p \in Paths}
    /\ pc \in {"parse", "build", "build_wait", "gen", "gen_wait", "tidy",
               "tidy_wait", "done"}
    /\ exit_status \in {<< >>, <<EXIT_OK>>, <<EXIT_EXCEPTION>>, <<EXIT_USAGE>>}

Init ==
    /\ argv \in ArgVectors
    /\ fs \in [Paths -> Kinds]
    /\ tools \in [ToolFiles -> BOOLEAN]
    /\ runner_exec \in BOOLEAN
    /\ age \in AgeSeconds
    /\ ToolFilesState(tools, runner_exec, age)
    /\ scripts \in [Scripts -> BOOLEAN]
    /\ cc_writable \in BOOLEAN
    /\ cc_initial \in FileStates
    /\ ccFile = cc_initial
    /\ written = << >>
    /\ pc = "parse"
    /\ work_dir = << >>
    /\ run_calls = << >>
    /\ alive = {}
    /\ completed = << >>
    /\ inspections = << >>
    /\ steps = << >>
    /\ exit_status = << >>

\* the script ends with the given status
Exit(code) == pc' = "done" /\ exit_status' = <<code>>

\* ---------------------------------------------------------------- steps
\* main(): args = _parse_args()
ParseArgs ==
    /\ pc = "parse"
    /\ steps' = Append(steps, "Validate")
    /\ LET r == _parse_args(argv)
       IN  IF r.status = "help"
           THEN Exit(EXIT_OK) /\ UNCHANGED work_dir
           ELSE IF r.status = "error"
           THEN Exit(EXIT_USAGE) /\ UNCHANGED work_dir
           ELSE /\ work_dir' = r.work_dir
                /\ pc' = "build"
                /\ UNCHANGED exit_status
    /\ UNCHANGED <<argv, fs, cc_initial, tools, runner_exec, age, scripts,
                   cc_writable, written, ccFile,
                   run_calls, alive, completed, inspections>>

\* _build_clang_tools up to the point where subprocess.run blocks
BuildClangTools ==
    /\ pc = "build"
    /\ steps' = Append(steps, "MaybeBuild")
    /\ inspections' = Append(inspections, [exists |-> tools, age |-> age])
    /\ IF ToolsUpToDate(work_dir)
       THEN /\ pc' = "gen"
            /\ UNCHANGED <<run_calls, alive, exit_status>>
       ELSE /\ run_calls' = Append(run_calls, build_clang_tools_cmd(work_dir))
            /\ IF CanStart(build_clang_tools_cmd(work_dir))
               THEN /\ alive' = alive \cup {build_clang_tools_cmd(work_dir)}
                    /\ pc' = AfterSpawn("build_wait", "gen")
                    /\ UNCHANGED exit_status
               ELSE Exit(EXIT_EXCEPTION) /\ UNCHANGED alive
    /\ UNCHANGED <<argv, fs, cc_initial, tools, runner_exec, age, scripts,
                   cc_writable, written, ccFile,
                   work_dir, completed>>

\* main() mutant: the tools are checked again after a build
AfterBuild_retry == "build"

\* main() mutant: a run that built the tools goes straight to the analysis
AfterBuild_skip == "tidy"

\* main(): _build_clang_tools has returned, _generate_compile_commands is next
AfterBuild == "gen"

\* the build child, while it runs and the script waits in subprocess.run,
\* creates, replaces or removes one of the tool files; a clang-tidy binary
\* it installs has whatever modification time the build gives it
BuildChildWrites ==
    /\ pc = "build_wait"
    /\ build_clang_tools_cmd(work_dir) \in alive
    /\ \E f \in ToolFiles, t \in [ToolFiles -> BOOLEAN], x \in BOOLEAN,
          a \in AgeSeconds :
        /\ ToolFilesState(t, x, a)
        /\ <<t, x, a>> # <<tools, runner_exec, age>>
        /\ \A g \in ToolFiles \ {f} : t[g] = tools[g]
        /\ f # _TIDY_RUNNER => x = runner_exec
        /\ f # _TIDY_BINARY => a = age
        /\ tools' = t
        /\ runner_exec' = x
        /\ age' = a
    /\ UNCHANGED <<argv, fs, scripts, cc_writable, cc_initial, ccFile,
                   written, pc, work_dir, run_calls, alive, completed,
                   inspections, steps, exit_status>>

\* the build child exits; subprocess.run(check=True) returns or raises
BuildExit ==
    /\ pc = "build_wait"
    /\ \E rc \in RetCodes :
        /\ alive' = alive \ {build_clang_tools_cmd(work_dir)}
        /\ completed' = Append(completed,
               [args |-> build_clang_tools_cmd(work_dir), returncode |-> rc])
        /\ IF RaisesCalledProcessError(TRUE, rc)
           THEN Exit(EXIT_EXCEPTION)
           ELSE pc' = AfterBuild /\ UNCHANGED exit_status
    /\ UNCHANGED <<argv, fs, cc_initial, tools, runner_exec, age, scripts,
                   cc_writable, written, ccFile,
                   work_dir, run_calls, inspections, steps>>

\* open(mode="w+") mutant: the file is opened without truncation ("a")
OpenForWrite_keep(file) == [exists |-> TRUE, data |-> file.data]

\* compile_commands_path.open(mode="w+"): created or truncated
OpenForWrite(file) == [exists |-> TRUE, data |-> << >>]

\* _generate_compile_commands up to the point where subprocess.run blocks:
\* the stdout= argument is evaluated, so the file opened, before the call;
\* an open that fails raises OSError and nothing is called
GenerateCompileCommands ==
    /\ pc = "gen"
    /\ steps' = Append(steps, "GenerateDB")
    /\ IF ~cc_writable
       THEN Exit(EXIT_EXCEPTION) /\ UNCHANGED <<ccFile, run_calls, alive>>
       ELSE /\ ccFile' = OpenForWrite(ccFile)
            /\ run_calls' = Append(run_calls, generate_compdb_cmd(work_dir))
            /\ IF CanStart(generate_compdb_cmd(work_dir))
               THEN /\ alive' = alive \cup {generate_compdb_cmd(work_dir)}
                    /\ pc' = AfterSpawn("gen_wait", "tidy")
                    /\ UNCHANGED exit_status
               ELSE Exit(EXIT_EXCEPTION) /\ UNCHANGED alive
    /\ UNCHANGED <<argv, fs, cc_initial, tools, runner_exec, age, scripts,
                   cc_writable, written, work_dir,
                   completed, inspections>>

\* the generator, while it runs and the script waits in subprocess.run,
\* writes its line to its stdout, the file the script opened
GenerateChildWrites ==
    /\ pc = "gen_wait"
    /\ generate_compdb_cmd(work_dir) \in alive
    /\ written = << >>
    /\ written' = Append(written, Line)
    /\ ccFile' = [exists |-> TRUE, data |-> Append(ccFile.data, Line)]
    /\ UNCHANGED <<argv, fs, cc_initial, tools, runner_exec, age, scripts,
                   cc_writable, pc, work_dir, run_calls, alive, completed,
                   inspections, steps, exit_status>>

\* the generator exits, having written something or nothing;
\* subprocess.run(check=True) returns or raises
GenerateExit ==
    /\ pc = "gen_wait"
    /\ \E rc \in RetCodes :
        /\ alive' = alive \ {generate_compdb_cmd(work_dir)}
        /\ completed' = Append(completed,
               [args |-> generate_compdb_cmd(work_dir), returncode |-> rc])
        /\ IF RaisesCalledProcessError(TRUE, rc)
           THEN Exit(EXIT_EXCEPTION)
           ELSE pc' = "tidy" /\ UNCHANGED exit_status
    /\ UNCHANGED <<argv, fs, cc_initial, tools, runner_exec, age, scripts,
                   cc_writable, written, ccFile,
                   work_dir, run_calls, inspections, steps>>

\* _run_clang_tidy up to the point where subprocess.run blocks; the runner
\* is a file below the working directory, a missing one raises OSError
RunClangTidy ==
    /\ pc = "tidy"
    /\ steps' = Append(steps, "RunAnalysis")
    /\ run_calls' = Append(run_calls, clang_tidy_cmd(work_dir))
    /\ IF CanStart(clang_tidy_cmd(work_dir))
       THEN /\ alive' = alive \cup {clang_tidy_cmd(work_dir)}
            /\ pc' = AfterSpawn("tidy_wait", "done")
            /\ UNCHANGED exit_status
       ELSE Exit(EXIT_EXCEPTION) /\ UNCHANGED alive
    /\ UNCHANGED <<argv, fs, cc_initial, tools, runner_exec, age, scripts,
                   cc_writable, written, ccFile,
                   work_dir, completed, inspections>>

\* the runner exits; subprocess.run(check=False) returns, main() returns
ClangTidyExit ==
    /\ pc = "tidy_wait"
    /\ \E rc \in RetCodes :
        /\ alive' = alive \ {clang_tidy_cmd(work_dir)}
        /\ completed' = Append(completed,
               [args |-> clang_tidy_cmd(work_dir), returncode |-> rc])
        /\ IF RaisesCalledProcessError(FALSE, rc)
           THEN Exit(EXIT_EXCEPTION)
           ELSE Exit(EXIT_OK)
    /\ UNCHANGED <<argv, fs, cc_initial, tools, runner_exec, age, scripts,
                   cc_writable, written, ccFile,
                   work_dir, run_calls, inspections, steps>>

Next ==
    \/ ParseArgs
    \/ BuildClangTools
    \/ BuildChildWrites
    \/ BuildExit
    \/ GenerateCompileCommands
    \/ GenerateChildWrites
    \/ GenerateExit
    \/ RunClangTidy
    \/ ClangTidyExit

Spec == Init /\ [][Next]_vars

\* the script run as its header says: in the src dir of a checkout, whose
\* scripts can be started, with a working directory it can write to
InitCheckout ==
    /\ Init
    /\ \A s \in Scripts : scripts[s]
    /\ cc_writable

SpecCheckout == InitCheckout /\ [][Next]_vars

\* ------------------------------------------------------ claim vocabulary
IsBuildCmd(cmd) == cmd[1] = <<_TIDY_BUILD>>
IsGenCmd(cmd) == cmd[1] = <<GENERATE_COMPDB>>
IsTidyCmd(cmd) == Len(cmd[1]) = 2 /\ cmd[1][2] = _TIDY_RUNNER

BuildCalls == {i \in 1..Len(run_calls) : IsBuildCmd(run_calls[i])}
GenCalls == {i \in 1..Len(run_calls) : IsGenCmd(run_calls[i])}
TidyCalls == {i \in 1..Len(run_calls) : IsTidyCmd(run_calls[i])}

\* a child of that kind has exited with a nonzero / zero return code
BuildFailed ==
    \E i \in 1..Len(completed) :
        IsBuildCmd(completed[i].args) /\ completed[i].returncode # 0
BuildSucceeded ==
    \E i \in 1..Len(completed) :
        IsBuildCmd(completed[i].args) /\ completed[i].returncode = 0
GenFailed ==
    \E i \in 1..Len(completed) :
        IsGenCmd(completed[i].args) /\ completed[i].returncode # 0
GenSucceeded ==
    \E i \in 1..Len(completed) :
        IsGenCmd(completed[i].args) /\ completed[i].returncode = 0
TidyExited == \E i \in 1..Len(completed) : IsTidyCmd(completed[i].args)
TidyExitedNonzero ==
    \E i \in 1..Len(completed) :
        IsTidyCmd(completed[i].args) /\ completed[i].returncode # 0

\* word i of the command line is --work-dir / -w and the next word, its
\* value, names no existing directory
BadWorkDirAt(i) ==
    /\ i + 1 <= Len(argv)
    /\ argv[i] \in {"-w", "--work-dir"}
    /\ argv[i + 1] \in DOMAIN fs
    /\ fs[argv[i + 1]] # "dir"
HelpBefore(i) == \E j \in 1..(i - 1) : argv[j] \in {"-h", "--help"}
HelpGiven == \E j \in 1..Len(argv) : argv[j] \in {"-h", "--help"}
\* no --work-dir / -w on the command line
NoWorkDirGiven == \A j \in 1..Len(argv) : argv[j] \notin {"-w", "--work-dir"}
\* word i is --work-dir / -w and no value follows it
MissingValueAt(i) ==
    /\ i <= Len(argv)
    /\ argv[i] \in {"-w", "--work-dir"}
    /\ \/ i = Len(argv)
       \/ argv[i + 1] \in {"-w", "--work-dir", "-h", "--help"}
\* word i is a plain word that is no value of --work-dir / -w
UnrecognizedAt(i) ==
    /\ argv[i] \in DOMAIN fs
    /\ i = 1 \/ argv[i - 1] \notin {"-w", "--work-dir"}
\* a -h / --help stands on the command line with no bad or missing
\* --work-dir value before it
HelpFirst ==
    \E h \in 1..Len(argv) :
        /\ argv[h] \in {"-h", "--help"}
        /\ \A j \in 1..(h - 1) : ~BadWorkDirAt(j) /\ ~MissingValueAt(j)
\* the command line, read against the directories on disk, is one the
\* parser rejects: no help request comes first, and a --work-dir value is
\* no directory or missing, a word is unrecognized, or there is no
\* --work-dir and out/Default is no directory
CommandLineRejected ==
    /\ ~HelpFirst
    /\ \/ \E i \in 1..Len(argv) : BadWorkDirAt(i) \/ MissingValueAt(i)
       \/ \E i \in 1..Len(argv) : UnrecognizedAt(i)
       \/ NoWorkDirGiven /\ fs["out/Default"] # "dir"
NothingSpawned ==
    /\ run_calls = << >>
    /\ alive = {}
    /\ completed = << >>
    /\ ccFile = cc_initial
    /\ pc \in {"parse", "done"}

Finished == pc = "done"
Failed == Finished /\ exit_status # <<0>>
Succeeded == Finished /\ exit_status = <<0>>
\* the file has been opened by the generation step: it is there and holds
\* what the generator wrote, nothing else
CcOverwritten ==
    /\ GenCalls # {}
    /\ ccFile.exists
    /\ ccFile.data = written

\* what the one staleness check saw
SawAllThree(seen) == \A f \in ToolFiles : seen.exists[f]
SawFresh(seen) == seen.age < 30 * 24 * 60 * 60
\* the staleness check found the tools missing or stale
BuildNeeded ==
    /\ Len(inspections) = 1
    /\ ~(SawAllThree(inspections[1]) /\ SawFresh(inspections[1]))
\* the run has entered the generation step
GenerationEntered == \E i \in 1..Len(steps) : steps[i] = "GenerateDB"

\* the working-directory words of a command
WorkDirsOf(cmd) ==
    IF IsTidyCmd(cmd) THEN {<<cmd[1][1]>>, cmd[3], <<cmd[6][1]>>, <<cmd[8][1]>>}
    ELSE {cmd[3]}

PipelineOrder == <<"Validate", "MaybeBuild", "GenerateDB", "RunAnalysis">>
Rank(cmd) == IF IsBuildCmd(cmd) THEN 1 ELSE IF IsGenCmd(cmd) THEN 2 ELSE 3

\* ----------------------------------------------------------------- claims
\* C1 as stated: a --work-dir argument that is no existing directory is
\* rejected with a nonzero exit before anything is spawned.
C1_Original ==
    (\E i \in 1..Len(argv) : BadWorkDirAt(i)) =>
        /\ NothingSpawned
        /\ Finished => exit_status \in {<<1>>, <<2>>}

\* C1 amended: a --work-dir argument that is no existing directory ends the
\* run before anything is spawned (no subprocess.run call, no child,
\* compile_commands.json neither opened nor written), with a nonzero exit
\* unless -h / --help stands before it on the command line with no bad or
\* missing --work-dir value before that help; the exit is then 0.
C1_InvalidWorkDirRejected ==
    \A i \in 1..Len(argv) :
        BadWorkDirAt(i) =>
            /\ NothingSpawned
            /\ Finished =>
                  \/ exit_status \in {<<1>>, <<2>>} /\ ~HelpFirst
                  \/ exit_status = <<0>> /\ HelpBefore(i) /\ HelpFirst

C1_Witness ==
    /\ Len(argv) = 2
    /\ BadWorkDirAt(1)
    /\ fs[argv[2]] = "file"
    /\ Failed
    /\ steps = <<"Validate">>

\* C2: all three tool files present and the clang-tidy binary less than 30
\* days old: no build process is spawned and the run goes on to the
\* compilation-database generation.
C2_FreshToolsNoBuild ==
    (Len(inspections) = 1 /\ SawAllThree(inspections[1])
                          /\ SawFresh(inspections[1])) =>
        /\ BuildCalls = {}
        /\ \A c \in alive : ~IsBuildCmd(c)
        /\ pc = "gen" \/ GenCalls # {}

C2_Witness ==
    /\ Len(inspections) = 1
    /\ SawAllThree(inspections[1])
    /\ inspections[1].age = 30 * 24 * 60 * 60 - 1
    /\ BuildCalls = {}
    /\ pc = "gen_wait"

\* C3: a tool file missing, or all three present and the clang-tidy binary
\* at least 30 days old (exactly 30 days included): exactly one build
\* process is spawned, asked for clang-tidy and clang-apply-replacements.
C3_MissingOrStaleBuildsOnce ==
    (Len(inspections) = 1 /\ ~(SawAllThree(inspections[1])
                               /\ SawFresh(inspections[1]))) =>
        /\ Cardinality(BuildCalls) = 1
        /\ \A i \in BuildCalls :
              /\ run_calls[i][4] = <<"clang-tidy">>
              /\ run_calls[i][5] = <<"clang-apply-replacements">>
              /\ \/ run_calls[i] \in alive
                 \/ \E j \in 1..Len(completed) : completed[j].args = run_calls[i]

C3_Witness ==
    /\ Len(inspections) = 1
    /\ SawAllThree(inspections[1])
    /\ inspections[1].age = 30 * 24 * 60 * 60
    /\ pc = "build_wait"
    /\ Cardinality(BuildCalls) = 1

C5_Original ==
    Finished =>
        /\ Failed <=> \/ \E i \in 1..Len(argv) : BadWorkDirAt(i)
                      \/ NoWorkDirGiven /\ fs["out/Default"] # "dir"
                      \/ BuildFailed
                      \/ GenFailed
        /\ TidyCalls # {} => Succeeded

\* C5 amended: the script fails exactly when the parser rejects the command
\* line (no help request first, and a --work-dir value that is no directory
\* or missing, an unrecognized word, or out/Default no directory when it is
\* the default), a program cannot be started (the build script when a build
\* is needed, the generator script, the analysis runner),
\* compile_commands.json cannot be opened for writing, the build exits
\* nonzero or the generator exits nonzero; a run whose analysis runner was
\* started succeeds whatever the runner returns.
C5_FailureCauses ==
    Finished =>
        /\ Failed <=>
              \/ CommandLineRejected
              \/ BuildNeeded /\ ~scripts[_TIDY_BUILD]
              \/ BuildFailed
              \/ GenerationEntered /\ ~cc_writable
              \/ GenerationEntered /\ cc_writable /\ ~scripts[GENERATE_COMPDB]
              \/ GenFailed
              \/ TidyCalls # {} /\ ~(tools[_TIDY_RUNNER] /\ runner_exec)
        /\ exit_status = <<2>> <=> CommandLineRejected
        /\ TidyExited => Succeeded

C5_Witness == Finished /\ TidyExitedNonzero /\ Succeeded

\* C6: a failed step stops the pipeline: after a nonzero build exit nothing
\* else is spawned and the build is not retried; after a nonzero generator
\* exit the analysis runner is not spawned.
C6_FailedStepStops ==
    /\ BuildFailed =>
          /\ Len(run_calls) = 1
          /\ Len(completed) = 1
          /\ alive = {}
          /\ Failed
    /\ GenFailed =>
          /\ TidyCalls = {}
          /\ Cardinality(GenCalls) = 1
          /\ alive = {}
          /\ Failed

C6_Witness == GenFailed /\ BuildSucceeded /\ Failed

\* C7 as stated: without --work-dir the working directory is out/Default,
\* checked like an explicit one: rejected before any spawn when it is no
\* directory, used by every later step otherwise.
C7_Original ==
    NoWorkDirGiven =>
        /\ fs["out/Default"] # "dir" =>
              /\ NothingSpawned
              /\ Finished => exit_status \in {<<1>>, <<2>>}
        /\ (fs["out/Default"] = "dir" /\ steps # << >>
                /\ steps # <<"Validate">>) =>
              /\ work_dir = <<"out/Default">>
              /\ \A i \in 1..Len(run_calls) :
                    WorkDirsOf(run_calls[i]) = {<<"out/Default">>}
        /\ (fs["out/Default"] = "dir" /\ argv = << >> /\ pc # "parse") =>
              work_dir = <<"out/Default">>

\* C7 amended: without --work-dir the working directory is out/Default: when
\* it is no directory the run ends before any spawn, with a nonzero exit
\* unless -h / --help is given; otherwise every later step uses it.
C7_DefaultWorkDirValidated ==
    NoWorkDirGiven =>
        /\ fs["out/Default"] # "dir" =>
              /\ NothingSpawned
              /\ Finished =>
                    \/ exit_status \in {<<1>>, <<2>>}
                    \/ exit_status = <<0>> /\ HelpGiven
        /\ (fs["out/Default"] = "dir" /\ steps # << >>
                /\ steps # <<"Validate">>) =>
              /\ work_dir = <<"out/Default">>
              /\ \A i \in 1..Len(run_calls) :
                    WorkDirsOf(run_calls[i]) = {<<"out/Default">>}
        /\ (fs["out/Default"] = "dir" /\ argv = << >> /\ pc # "parse") =>
              work_dir = <<"out/Default">>

C7_Witness ==
    /\ argv = << >>
    /\ fs["out/Default"] = "dir"
    /\ Len(run_calls) = 3
    /\ Succeeded

\* C8: the steps run in the order Validate, MaybeBuild, GenerateDB,
\* RunAnalysis, none twice; each command is spawned at most once, in that
\* order, and only when no earlier child is still alive.
C8_LinearPipeline ==
    /\ Len(steps) <= 4
    /\ steps = SubSeq(PipelineOrder, 1, Len(steps))
    /\ \A i, j \in 1..Len(run_calls) :
          i < j => Rank(run_calls[i]) < Rank(run_calls[j])
    /\ Cardinality(alive) <= 1
    /\ \A i \in 1..Len(run_calls) :
          run_calls[i] \in alive => i = Len(run_calls)

C8_Witness ==
    /\ steps = PipelineOrder
    /\ Len(run_calls) = 3
    /\ Len(completed) = 2
    /\ Cardinality(alive) = 1

\* C9 as stated: compile_commands.json is truncated before the generator is
\* spawned, so a run whose generator exits nonzero does not leave the file
\* unchanged.
C9_Original ==
    /\ GenCalls # {} => CcOverwritten
    /\ GenFailed => (Failed /\ ccFile # cc_initial)

\* C9 amended: compile_commands.json is truncated before the generator is
\* spawned: until the call the file is as it was, from the call on it is
\* there and holds what the generator wrote and nothing else, so a run whose
\* generator exits nonzero keeps of the old content only what the generator
\* wrote again, and a file with more than that has changed.
C9_TruncatedBeforeGenerator ==
    /\ GenCalls = {} => (ccFile = cc_initial /\ written = << >>)
    /\ GenCalls # {} => CcOverwritten
    /\ GenFailed =>
          /\ Failed
          /\ ccFile = [exists |-> TRUE, data |-> written]
          /\ ccFile = cc_initial <=>
                (cc_initial.exists /\ cc_initial.data = written)

C9_Witness ==
    /\ GenFailed
    /\ Failed
    /\ cc_initial = [exists |-> TRUE, data |-> <<Line>>]
    /\ ccFile = [exists |-> TRUE, data |-> << >>]

\* C10: the tool files are inspected once, before the build decision; after
\* a build that exits zero the run generates the database and calls the
\* runner without looking at them again, whether or not they exist.
C10_ToolsInspectedOnce ==
    /\ Len(inspections) <= 1
    /\ Len(inspections) = IF pc \in {"parse", "build"} \/ work_dir = << >>
                           THEN 0 ELSE 1
    /\ BuildSucceeded => (pc = "gen" \/ GenCalls # {})
    /\ GenSucceeded => (pc = "tidy" \/ TidyCalls # {})

C10_Witness ==
    /\ BuildSucceeded
    /\ \E c \in alive : IsTidyCmd(c)
    /\ ~tools[_TIDY_BINARY]
    /\ Len(inspections) = 1

====
